---- MODULE Spec2Model ----
(***************************************************************************)
(* A model of exotrace/core.py: the Scene ray tracer (Scene, Ray,          *)
(* intersect, normalize) and the Star surface model (Star, Spot,           *)
(* rotate_basis, haversine).                                               *)
(*                                                                         *)
(* Numbers.  The program computes in IEEE doubles.  The model computes in  *)
(* exact arithmetic on the integers extended with +inf, -inf and NaN, with *)
(* the IEEE rules for the three special values (0/0 = NaN, x/0 = +-inf,    *)
(* every comparison with NaN false).  Square roots and quotients are       *)
(* defined only where they are exact; the inputs are drawn from sets on    *)
(* which every root and quotient the program forms is an integer, so the   *)
(* model never rounds.  Angles are carried in degrees throughout: a value  *)
(* the program holds in radians is represented by its measure in degrees.  *)
(***************************************************************************)
EXTENDS Integers, Sequences, FiniteSets, TLC

VARIABLES
    \* ---- Scene (core.py 121-178) ----
    bodies,      \* Scene.bodies: sequence of bodies [center, radius]
    res,         \* Scene.res
    extent,      \* Scene.extent: <<lo, hi>>
    zmax,        \* Scene.zmax
    flux,        \* Scene.flux[j, i]
    mu,          \* Scene.mu[j, i]
    t,           \* Scene.t[j, i]
    body,        \* Scene.body[j, i]: index into bodies, 0 for None
    sceneOp,     \* history: the last Scene call
    ntrace,      \* history: number of Scene.trace() calls so far (capped)
    \* ---- Star (core.py 19-107) ----
    meridian,    \* Star.meridian
    inc,         \* Star.inc
    P,           \* Star.P[g]: position of grid point g
    r,           \* Star.r[g]
    lat,         \* Star.lat[g]
    lon,         \* Star.lon[g]
    star_mu,     \* Star.mu[g]
    u1,          \* Star.u1
    u2,          \* Star.u2
    star_flux,   \* Star.flux[g]
    spots,       \* Star.spots: sequence of Spot records
    starOp,      \* history: the last Star call
    starArg,     \* history: the target of the last set_meridian call, else 0
    angleSum,    \* history: sum of the rotation angles applied, modulo 360
    turn,        \* history: what the last rotate(360) after an orientation
                 \* change did to meridian and flux: "same" or "changed"
    \* ---- direct calls of the module-level functions ----
    call         \* the last call of normalize / Ray / intersect and its result

sceneVars == <<bodies, res, extent, zmax, flux, mu, t, body, sceneOp, ntrace>>
starVars  == <<meridian, inc, P, r, lat, lon, star_mu, u1, u2, star_flux,
               spots, starOp, starArg, angleSum, turn>>
vars      == <<sceneVars, starVars, call>>

----------------------------------------------------------------------------
(* Extended numbers: IEEE special values around exact integers.            *)

Fin(n) == [k |-> "fin", v |-> n]
PInf   == [k |-> "inf", v |-> 1]
NInf   == [k |-> "inf", v |-> -1]
NaN    == [k |-> "nan", v |-> 0]

IsFin(a) == a.k = "fin"
IsNaN(a) == a.k = "nan"
IsInf(a) == a.k = "inf"

Abs(n) == IF n < 0 THEN -n ELSE n
Sgn(n) == IF n > 0 THEN 1 ELSE IF n < 0 THEN -1 ELSE 0
SignOf(a) == IF IsFin(a) THEN Sgn(a.v) ELSE a.v
InfOfSign(s) == IF s > 0 THEN PInf ELSE NInf

\* Let(e, F) is F(e) with e evaluated once and bound as a value: the local
\* assignment "x = e" of the program followed by the code F that reads x.
Let(e, F(_)) == CHOOSE z \in {F(x) : x \in {e}} : TRUE

\* Each operation evaluates its operands once (they are bound as values
\* before the case analysis).
XNeg(x) ==
    LET Neg(a) ==
            CASE IsNaN(a) -> NaN
              [] IsInf(a) -> InfOfSign(-a.v)
              [] OTHER    -> Fin(-a.v)
    IN  CHOOSE z \in {Neg(a) : a \in {x}} : TRUE

XAdd(x, y) ==
    LET Add(a, b) ==
            CASE IsNaN(a) \/ IsNaN(b) -> NaN
              [] IsInf(a) /\ IsInf(b) -> IF a.v = b.v THEN a ELSE NaN
              [] IsInf(a)             -> a
              [] IsInf(b)             -> b
              [] OTHER                -> Fin(a.v + b.v)
    IN  CHOOSE z \in {Add(a, b) : a \in {x}, b \in {y}} : TRUE

XSub(a, b) == XAdd(a, XNeg(b))

XMul(x, y) ==
    LET Mul(a, b) ==
            CASE IsNaN(a) \/ IsNaN(b) -> NaN
              [] IsInf(a) \/ IsInf(b) ->
                    IF SignOf(a) * SignOf(b) = 0 THEN NaN
                    ELSE InfOfSign(SignOf(a) * SignOf(b))
              [] OTHER                -> Fin(a.v * b.v)
    IN  CHOOSE z \in {Mul(a, b) : a \in {x}, b \in {y}} : TRUE

\* The exact quotient of two integers; undefined when n does not divide m.
ExactQuot(m, n) == CHOOSE q \in -Abs(m) .. Abs(m) : q * n = m

XDiv(x, y) ==
    LET Div(a, b) ==
            CASE IsNaN(a) \/ IsNaN(b) -> NaN
              [] IsInf(a) /\ IsInf(b) -> NaN
              [] IsInf(a)             ->
                    InfOfSign(a.v * (IF SignOf(b) < 0 THEN -1 ELSE 1))
              [] IsInf(b)             -> Fin(0)
              [] b.v = 0              -> IF a.v = 0 THEN NaN ELSE InfOfSign(a.v)
              [] OTHER                -> Fin(ExactQuot(a.v, b.v))
    IN  CHOOSE z \in {Div(a, b) : a \in {x}, b \in {y}} : TRUE

\* The exact root of a perfect square; undefined on other naturals.
ExactRoot(n) == CHOOSE q \in 0 .. n : q * q = n

XSqrt(x) ==
    LET Sqrt(a) ==
            CASE IsNaN(a) -> NaN
              [] IsInf(a) -> IF a.v > 0 THEN PInf ELSE NaN
              [] a.v < 0  -> NaN
              [] OTHER    -> Fin(ExactRoot(a.v))
    IN  CHOOSE z \in {Sqrt(a) : a \in {x}} : TRUE

XLe(x, y) ==
    \E a \in {x}, b \in {y} :
        /\ ~IsNaN(a)
        /\ ~IsNaN(b)
        /\ \/ a = NInf
           \/ b = PInf
           \/ IsFin(a) /\ IsFin(b) /\ a.v <= b.v
XLt(x, y) == \E a \in {x}, b \in {y} : XLe(a, b) /\ a # b
XGe(a, b) == XLe(b, a)
XGt(a, b) == XLt(b, a)

\* np.min / np.max of a two-element list: NaN propagates.
XMin(x, y) ==
    CHOOSE z \in {IF IsNaN(a) \/ IsNaN(b) THEN NaN ELSE IF XLe(a, b) THEN a ELSE b
                  : a \in {x}, b \in {y}} : TRUE
XMax(x, y) ==
    CHOOSE z \in {IF IsNaN(a) \/ IsNaN(b) THEN NaN ELSE IF XLe(a, b) THEN b ELSE a
                  : a \in {x}, b \in {y}} : TRUE

----------------------------------------------------------------------------
(* Vectors: 3-tuples of extended numbers.                                  *)

Vec(c) == <<Fin(c[1]), Fin(c[2]), Fin(c[3])>>
VSub(x, y) ==
    CHOOSE z \in {<<XSub(a[1], b[1]), XSub(a[2], b[2]), XSub(a[3], b[3])>>
                  : a \in {x}, b \in {y}} : TRUE
VAdd(x, y) ==
    CHOOSE z \in {<<XAdd(a[1], b[1]), XAdd(a[2], b[2]), XAdd(a[3], b[3])>>
                  : a \in {x}, b \in {y}} : TRUE
VScale(x, y) ==
    CHOOSE z \in {<<XMul(a[1], s), XMul(a[2], s), XMul(a[3], s)>>
                  : a \in {x}, s \in {y}} : TRUE
dot(x, y) ==
    CHOOSE z \in {XAdd(XAdd(XMul(a[1], b[1]), XMul(a[2], b[2])), XMul(a[3], b[3]))
                  : a \in {x}, b \in {y}} : TRUE
norm(x) == CHOOSE z \in {XSqrt(dot(a, a)) : a \in {x}} : TRUE

\* normalize (core.py 198-201): x /= np.linalg.norm(x); return x.  A zero
\* vector is divided by 0 componentwise: the result is returned, not raised.
normalize(x) ==
    Let(x, LAMBDA a :
    Let(norm(a), LAMBDA n :
        [out |-> "value",
         val |-> <<XDiv(a[1], n), XDiv(a[2], n), XDiv(a[3], n)>>]))

\* Ray.__init__ (core.py 12-16)
Ray(origin, direction) ==
    [origin |-> origin, direction |-> direction,
     u |-> normalize(VSub(direction, origin)).val]

\* The discriminant b^2 - 4ac that intersect forms (core.py 210-214).
discriminant(ray, sphere) ==
    Let(dot(ray.u, ray.u), LAMBDA a :
    Let(VSub(ray.origin, Vec(sphere.center)), LAMBDA origin_center :
    Let(XMul(Fin(2), dot(ray.u, origin_center)), LAMBDA b :
    Let(XSub(dot(origin_center, origin_center),
             Fin(sphere.radius * sphere.radius)), LAMBDA c :
        XSub(XMul(b, b), XMul(XMul(Fin(4), a), c))))))

\* The coefficient b = 2*dot(u, O - C) (core.py 211-212).
coefficient_b(ray, sphere) ==
    XMul(Fin(2), dot(ray.u, VSub(ray.origin, Vec(sphere.center))))

\* The roots t1, t2 as first computed, before they are ordered
\* (core.py 216-217).
roots(ray, sphere) ==
    Let(coefficient_b(ray, sphere), LAMBDA b :
    Let(XSqrt(discriminant(ray, sphere)), LAMBDA sq :
        <<XDiv(XAdd(XNeg(b), sq), Fin(2)), XDiv(XSub(XNeg(b), sq), Fin(2))>>))

\* intersect (core.py 204-223)
intersect(ray, sphere) ==
    Let(discriminant(ray, sphere), LAMBDA disc :
        IF XGe(disc, Fin(0))
        THEN Let(roots(ray, sphere), LAMBDA rt :
             Let(XMin(rt[1], rt[2]), LAMBDA t1 :
             Let(XMax(rt[1], rt[2]), LAMBDA t2 :
                 IF XGe(t1, Fin(0)) THEN t1 ELSE t2)))
        ELSE PInf)

----------------------------------------------------------------------------
(* Scene (core.py 121-178).                                                *)

\* The spheres a Scene is built from.  All combinations keep every grid
\* coordinate, root and cosine an integer: each pixel of the 2x2 and 3x3
\* grids lies at a body's centre, on its limb, or off its disk.
BodyPool ==
    { [center |-> <<0, 0, 0>>,  radius |-> 1],    \* top at z = 1
      [center |-> <<0, 0, -1>>, radius |-> 1],    \* top at z = 0
      [center |-> <<0, 0, -2>>, radius |-> 1],    \* top at z = -1
      [center |-> <<0, 0, -6>>, radius |-> 1],    \* far behind
      [center |-> <<0, 0, 0>>,  radius |-> 3],    \* large, concentric
      [center |-> <<2, -2, 5>>, radius |-> 1] }   \* in front, off the grid points

ResSet == {2, 3}
MaxBodies == 2

SetMin(S) == CHOOSE m \in S : \A y \in S : m <= y
SetMax(S) == CHOOSE m \in S : \A y \in S : m >= y

\* np.linspace(lo, hi, n)[i]
linspace(lo, hi, n, i) ==
    IF n = 1 THEN lo ELSE lo + ExactQuot(i * (hi - lo), n - 1)

\* get_none_array / the np.ones(shape)*nan, *inf grids (core.py 131-134)
Pixels(n) == (0 .. n - 1) \X (0 .. n - 1)
DefaultCell == [flux |-> NaN, mu |-> NaN, t |-> PInf, body |-> 0]

\* Scene.get_extent (core.py 141-156): the extent and zmax for a collection.
get_extent_mut(bs) ==
    IF Len(bs) > 0
    THEN LET I == 1 .. Len(bs)
             xmin == SetMin({bs[k].center[1] - bs[k].radius : k \in I})
             xmax == SetMax({bs[k].center[1] + bs[k].radius : k \in I})
             zm   == SetMax({bs[k].center[3] + bs[k].radius : k \in I})
         IN  [extent |-> <<xmin, xmax>>, zmax |-> Fin(zm)]
    ELSE [extent |-> <<-1, 1>>, zmax |-> PInf]

get_extent(bs) ==
    IF Len(bs) > 0
    THEN LET I == 1 .. Len(bs)
             xmin == SetMin({bs[k].center[1] - bs[k].radius : k \in I})
             xmax == SetMax({bs[k].center[1] + bs[k].radius : k \in I})
             ymin == SetMin({bs[k].center[2] - bs[k].radius : k \in I})
             ymax == SetMax({bs[k].center[2] + bs[k].radius : k \in I})
             zm   == SetMax({bs[k].center[3] + bs[k].radius : k \in I})
         IN  [extent |-> <<SetMin({xmin, ymin}), SetMax({xmax, ymax})>>,
              zmax   |-> Fin(zm)]
    ELSE [extent |-> <<-1, 1>>, zmax |-> PInf]

\* The ray trace() casts for pixel p = <<j, i>> (core.py 161-162):
\* origin (x[i], y[j], zmax), direction point (x[i], y[j], 0).
PixelRay(ext, zm, n, p) ==
    LET xi == Fin(linspace(ext[1], ext[2], n, p[2]))
        yj == Fin(linspace(ext[1], ext[2], n, p[1]))
    IN  Ray(<<xi, yj, zm>>, <<xi, yj, Fin(0)>>)

\* The depth test of core.py 166: the body is skipped when t >= t_min.
depth_skip_mut(tt, t_min) == XGt(tt, t_min)

depth_skip(tt, t_min) == XGe(tt, t_min)

\* The limb-angle cosine of core.py 170-174.
hit_mu(ray, sphere, tt) ==
    Let(VAdd(ray.origin, VScale(ray.u, tt)), LAMBDA Pt :
    Let(VSub(ray.origin, Pt), LAMBDA op :
    Let(VSub(Pt, Vec(sphere.center)), LAMBDA pc :
        XDiv(dot(op, pc), XMul(norm(op), norm(pc))))))

\* The loop over bodies for one pixel (core.py 163-178), from body k on.
\* ts[k] is intersect(ray, body k) and hits[k] the four entries the loop
\* body writes for body k; cell holds the pixel's entries of the four grids.
RECURSIVE scan_bodies(_, _, _, _, _)
scan_bodies(ts, hits, cell, t_min, k) ==
    IF k > Len(ts) THEN cell
    ELSE IF depth_skip(ts[k], t_min)
         THEN scan_bodies(ts, hits, cell, t_min, k + 1)
         ELSE scan_bodies(ts, hits, hits[k], ts[k], k + 1)

trace_pixel(bs, ray, cell) ==
    Let([k \in 1 .. Len(bs) |-> intersect(ray, bs[k])], LAMBDA ts :
    Let([k \in 1 .. Len(bs) |->
            [flux |-> Fin(1), mu |-> hit_mu(ray, bs[k], ts[k]),
             t |-> ts[k], body |-> k]], LAMBDA hits :
        scan_bodies(ts, hits, cell, PInf, 1)))

\* Scene.trace (core.py 158-178) applied to grids g: the grids afterwards.
trace_grid(bs, ext, zm, n, g) ==
    [p \in Pixels(n) |->
        Let(PixelRay(ext, zm, n, p), LAMBDA ray : trace_pixel(bs, ray, g[p]))]

CurrentGrid ==
    [p \in Pixels(res) |->
        [flux |-> flux[p], mu |-> mu[p], t |-> t[p], body |-> body[p]]]

\* Scene.__init__ (core.py 124-134)
SceneInit ==
    /\ res \in ResSet
    /\ bodies \in {<<>>} \cup {<<b>> : b \in BodyPool}
    /\ \E e \in {get_extent(bodies)} : extent = e.extent /\ zmax = e.zmax
    /\ flux = [p \in Pixels(res) |-> NaN]
    /\ mu = [p \in Pixels(res) |-> NaN]
    /\ t = [p \in Pixels(res) |-> PInf]
    /\ body = [p \in Pixels(res) |-> 0]
    /\ sceneOp = "init"
    /\ ntrace = 0

\* Scene.add (core.py 136-139)
SceneAdd(b) ==
    /\ Len(bodies) < MaxBodies
    /\ bodies' = Append(bodies, b)
    /\ \E e \in {get_extent(bodies')} : extent' = e.extent /\ zmax' = e.zmax
    /\ sceneOp' = "add"
    /\ UNCHANGED <<res, flux, mu, t, body, ntrace>>
    /\ UNCHANGED <<starVars, call>>

\* Scene.trace (core.py 158-178)
SceneTrace ==
    /\ \E g \in {trace_grid(bodies, extent, zmax, res, CurrentGrid)} :
           /\ flux' = [p \in Pixels(res) |-> g[p].flux]
           /\ mu' = [p \in Pixels(res) |-> g[p].mu]
           /\ t' = [p \in Pixels(res) |-> g[p].t]
           /\ body' = [p \in Pixels(res) |-> g[p].body]
    /\ sceneOp' = "trace"
    /\ ntrace' = IF ntrace < 2 THEN ntrace + 1 ELSE ntrace
    /\ UNCHANGED <<bodies, res, extent, zmax>>
    /\ UNCHANGED <<starVars, call>>

----------------------------------------------------------------------------
(* Rotation and great-circle distance (core.py 291-303, 324-338).          *)

\* cos and sin of an angle in degrees, at the multiples of 90 where they
\* are integers.
CosD(d) == CASE d % 360 = 0 -> 1 [] d % 360 = 90 -> 0
             [] d % 360 = 180 -> -1 [] d % 360 = 270 -> 0
SinD(d) == CASE d % 360 = 0 -> 0 [] d % 360 = 90 -> 1
             [] d % 360 = 180 -> 0 [] d % 360 = 270 -> -1

MatMul(A, B) ==
    [i \in 1..3 |-> [j \in 1..3 |->
        A[i][1] * B[1][j] + A[i][2] * B[2][j] + A[i][3] * B[3][j]]]
MatVec(A, v) ==
    [i \in 1..3 |->
        XAdd(XAdd(XMul(Fin(A[i][1]), v[1]), XMul(Fin(A[i][2]), v[2])),
             XMul(Fin(A[i][3]), v[3]))]

OnZAxis(v) == v[1] = Fin(0) /\ v[2] = Fin(0) /\ IsFin(v[3])
AllNaN(v) == IsNaN(v[1]) /\ IsNaN(v[2]) /\ IsNaN(v[3])

\* rotate_basis (core.py 291-303): R = Rz(gamma) @ Ry(beta) @ Rx(alpha); R @ P.
\* With alpha = beta = 0, R is Rz(gamma), whose product with a point on the
\* z axis is that point and with an all-NaN point is all NaN, for every
\* gamma; otherwise the angles are multiples of 90.
rotate_basis(Pt, alpha, beta, gamma) ==
    IF alpha = 0 /\ beta = 0 /\ (OnZAxis(Pt) \/ AllNaN(Pt)) THEN Pt
    ELSE LET Rx == << <<1, 0, 0>>,
                      <<0, CosD(alpha), -SinD(alpha)>>,
                      <<0, SinD(alpha), CosD(alpha)>> >>
             Ry == << <<CosD(beta), 0, SinD(beta)>>,
                      <<0, 1, 0>>,
                      <<-SinD(beta), 0, CosD(beta)>> >>
             Rz == << <<CosD(gamma), -SinD(gamma), 0>>,
                      <<SinD(gamma), CosD(gamma), 0>>,
                      <<0, 0, 1>> >>
         IN  MatVec(MatMul(MatMul(Rz, Ry), Rx), Pt)

\* np.degrees(np.arccos(x)) at x in {-1, 0, 1}
ArcCosD(x0) ==
    Let(x0, LAMBDA x :
        IF ~IsFin(x) THEN NaN
        ELSE CASE x.v = 1 -> Fin(0) [] x.v = 0 -> Fin(90) [] x.v = -1 -> Fin(180))

\* np.degrees(np.arctan2(y, x)) on the axes; arctan2(0, 0) = 0.
ArcTan2D(y, x) ==
    IF IsNaN(y) \/ IsNaN(x) THEN NaN
    ELSE CASE y.v = 0 /\ x.v >= 0 -> Fin(0)
           [] y.v = 0 /\ x.v < 0  -> Fin(180)
           [] y.v > 0 /\ x.v = 0  -> Fin(90)
           [] y.v < 0 /\ x.v = 0  -> Fin(-90)

\* haversine (core.py 324-338), degrees in and out.  With
\* sin(x/2)^2 = (1 - cos x)/2, twice the code's a is
\* (1 - cos dlat) + cos lat1 * cos lat2 * (1 - cos dlon); on the multiples
\* of 90 it is 0, 1 or 2 and 2*arcsin(sqrt(a)) is 0, 90 or 180 degrees.
haversine(lat1, lon1, lat2, lon2) ==
    IF IsNaN(lat1) \/ IsNaN(lon1) \/ IsNaN(lat2) \/ IsNaN(lon2) THEN NaN
    ELSE LET dlon == lon2.v - lon1.v
             dlat == lat2.v - lat1.v
             twoA == (1 - CosD(dlat))
                     + CosD(lat1.v) * CosD(lat2.v) * (1 - CosD(dlon))
         IN  CASE twoA = 0 -> Fin(0) [] twoA = 1 -> Fin(90) [] twoA = 2 -> Fin(180)

----------------------------------------------------------------------------
(* Star (core.py 19-107).                                                  *)

Masked == [k |-> "masked", v |-> 0]

\* The grid is indexed 1..N in np.ndindex order; every operation treats
\* the grid points independently.
ex == <<Fin(1), Fin(0), Fin(0)>>
ey == <<Fin(0), Fin(1), Fin(0)>>
ez == <<Fin(0), Fin(0), Fin(1)>>
VNeg(v) == <<XNeg(v[1]), XNeg(v[2]), XNeg(v[3])>>
zerov == <<Fin(0), Fin(0), Fin(0)>>
nanv == <<NaN, NaN, NaN>>

\* Populated position grids: unit-sphere points on the axes, an off-disk
\* (NaN) point, a point left at the constructor's zero; the last grid has
\* every point on the spin (z) axis.
PGrids ==
    { <<ex, ey, ez, nanv>>,
      <<VNeg(ex), ey, VNeg(ez), zerov>>,
      <<ez, VNeg(ez), nanv, ez>> }

MuGrids == { <<Fin(1), Fin(0), Fin(1), Fin(0)>> }
LDCoeffs == {Fin(0), Fin(1)}

SpotPool ==
    { [lat |-> Fin(0),   lon |-> Fin(0),  radius |-> Fin(90), contrast |-> Fin(0)],
      [lat |-> Fin(0),   lon |-> Fin(90), radius |-> Fin(45), contrast |-> Fin(2)] }

MaxSpots == 2
Angles == {-450, -135, 90, 180, 360, 405}
Targets == {-270, 180, 225, 540}
Inclinations == {90, 270}

\* The angles whose rotation of grid Pg the model computes exactly.
Rotatable(Pg, angle) ==
    angle % 90 = 0 \/ \A g \in DOMAIN Pg : OnZAxis(Pg[g]) \/ AllNaN(Pg[g])

\* The loop of calc_flux over the spots, from spot k on, at one grid point
\* (core.py 62-65): flux becomes spot.contrast where dist <= spot.radius.
RECURSIVE paint(_, _, _, _, _)
paint(f, la, lo, sp, k) ==
    IF k > Len(sp) THEN f
    ELSE paint(IF XLe(haversine(la, lo, sp[k].lat, sp[k].lon), sp[k].radius)
               THEN sp[k].contrast ELSE f,
               la, lo, sp, k + 1)

Reverse(sq) == [k \in 1 .. Len(sq) |-> sq[Len(sq) + 1 - k]]

calc_flux_mut(rg, latg, long, sp) ==
    [g \in DOMAIN rg |->
        IF IsNaN(rg[g]) THEN Masked
        ELSE paint(Fin(1), latg[g], long[g], Reverse(sp), 1)]

\* Star.calc_flux (core.py 58-65): ones, masked where r is NaN, then the spots.
calc_flux(rg, latg, long, sp) ==
    [g \in DOMAIN rg |->
        IF IsNaN(rg[g]) THEN Masked
        ELSE paint(Fin(1), latg[g], long[g], sp, 1)]

\* Star.limb_darken (core.py 67-71); a masked entry stays masked.
limb_darken(fg, mg, c1, c2) ==
    [g \in DOMAIN fg |->
        IF fg[g] = Masked THEN Masked
        ELSE LET d == XSub(fg[g], mg[g])
             IN  XSub(XSub(fg[g], XMul(c1, d)), XMul(c2, XMul(d, d)))]

refresh_flux_mut(old, rg, latg, long) ==
    limb_darken(old, star_mu, u1, u2)

\* self.calc_flux(); self.limb_darken() (core.py 86-87, 105-106)
refresh_flux(old, rg, latg, long) ==
    limb_darken(calc_flux(rg, latg, long, spots), star_mu, u1, u2)

\* The reduction of the meridian (core.py 75-77).
reduce_meridian_mut(m) == m % 360

reduce_meridian(m) ==
    IF (m % 360) > 180 THEN (m % 360) - 360 ELSE m % 360

\* The grids recomputed from P (core.py 81-85 and 100-104).
r_of(Pg) == [g \in DOMAIN Pg |-> norm(Pg[g])]
lat_of(Pg) ==
    [g \in DOMAIN Pg |->
        Let(ArcCosD(XDiv(Pg[g][3], norm(Pg[g]))), LAMBDA theta :
            XSub(theta, Fin(90)))]
lon_of(Pg) == [g \in DOMAIN Pg |-> ArcTan2D(Pg[g][1], Pg[g][2])]

\* Star.__init__ (core.py 22-49), then the caller's population of P, mu,
\* u1 and u2.
StarInit ==
    /\ meridian = 0
    /\ inc = 90
    /\ P \in PGrids
    /\ r = [g \in DOMAIN P |-> Fin(0)]
    /\ lat = [g \in DOMAIN P |-> Fin(0)]
    /\ lon = [g \in DOMAIN P |-> Fin(0)]
    /\ star_mu \in MuGrids
    /\ u1 \in LDCoeffs
    /\ u2 \in LDCoeffs
    /\ star_flux = [g \in DOMAIN P |-> Fin(0)]
    /\ spots = <<>>
    /\ starOp = "init"
    /\ starArg = 0
    /\ angleSum = 0
    /\ turn = "none"

\* Star.add (core.py 51-56)
StarAdd(sp, overwrite) ==
    /\ Len(IF overwrite THEN sp ELSE spots \o sp) <= MaxSpots
    /\ spots' = IF overwrite THEN sp ELSE spots \o sp
    /\ starOp' = "add"
    /\ starArg' = 0
    /\ turn' = "none"
    /\ UNCHANGED <<meridian, inc, P, r, lat, lon, star_mu, u1, u2, star_flux,
                   angleSum>>
    /\ UNCHANGED <<sceneVars, call>>

\* Star.calc_flux (core.py 58-65) called on its own
StarCalcFlux ==
    /\ star_flux' = calc_flux(r, lat, lon, spots)
    /\ starOp' = "calc_flux"
    /\ starArg' = 0
    /\ turn' = "none"
    /\ UNCHANGED <<meridian, inc, P, r, lat, lon, star_mu, u1, u2, spots,
                   angleSum>>
    /\ UNCHANGED <<sceneVars, call>>

OrientationOps == {"rotate", "set_meridian", "set_inclination"}

\* The body of Star.rotate (core.py 73-87) for a given angle.
rotate(angle) ==
    /\ meridian' = reduce_meridian(meridian + angle)
    /\ P' = [g \in DOMAIN P |-> rotate_basis(P[g], 0, 0, -angle)]
    /\ r' = r_of(P')
    /\ lat' = lat_of(P')
    /\ lon' = lon_of(P')
    /\ star_flux' = refresh_flux(star_flux, r', lat', lon')
    /\ angleSum' = (angleSum + angle) % 360
    /\ turn' = IF angle = 360 /\ starOp \in OrientationOps
               THEN IF meridian' = meridian /\ star_flux' = star_flux
                    THEN "same" ELSE "changed"
               ELSE "none"
    /\ UNCHANGED <<inc, star_mu, u1, u2, spots>>
    /\ UNCHANGED <<sceneVars, call>>

\* Star.rotate (core.py 73-87)
StarRotate(angle) ==
    /\ Rotatable(P, angle)
    /\ rotate(angle)
    /\ starOp' = "rotate"
    /\ starArg' = 0

\* Star.set_meridian (core.py 89-92)
StarSetMeridian(new_meridian) ==
    /\ Rotatable(P, new_meridian - meridian)
    /\ rotate(new_meridian - meridian)
    /\ starOp' = "set_meridian"
    /\ starArg' = new_meridian

\* Star.set_inclination (core.py 94-107)
StarSetInclination(new_inclination) ==
    /\ P' = [g \in DOMAIN P |->
                rotate_basis(P[g], -(new_inclination - inc), 0, 0)]
    /\ r' = r_of(P')
    /\ lat' = lat_of(P')
    /\ lon' = lon_of(P')
    /\ star_flux' = refresh_flux(star_flux, r', lat', lon')
    /\ inc' = new_inclination
    /\ starOp' = "set_inclination"
    /\ starArg' = 0
    /\ turn' = "none"
    /\ UNCHANGED <<meridian, star_mu, u1, u2, spots, angleSum>>
    /\ UNCHANGED <<sceneVars, call>>

----------------------------------------------------------------------------
(* Direct calls of normalize, Ray and intersect.                           *)

\* Vectors along an axis, and the zero vector.
AxisVectors ==
    { <<0, 0, 0>>, <<0, 0, -2>>, <<0, 0, 3>>, <<1, 0, 0>>, <<-2, 0, 0>>, <<0, 1, 0>> }

RayOrigins == { <<x, y, z>> : x \in {0, 1, 3, 4}, y \in {0, 4}, z \in {-4, 0, 2, 6} }

SpherePool ==
    { [center |-> <<0, 0, 0>>,  radius |-> 1],
      [center |-> <<0, 0, 0>>,  radius |-> 5],
      [center |-> <<0, 0, -2>>, radius |-> 1] }

IsSquare(n) == \E q \in 0 .. n : q * q = n

\* The rays and spheres whose roots are integers.
ExactRoots(o, d, sph) ==
    LET disc == discriminant(Ray(Vec(o), Vec(d)), sph)
    IN  ~IsFin(disc) \/ disc.v < 0 \/ IsSquare(disc.v)

IntAdd(a, b) == <<a[1] + b[1], a[2] + b[2], a[3] + b[3]>>

FnInit == call = [op |-> "none"]

\* normalize(x) called on vector x
FnNormalize(x) ==
    /\ call.op = "none"
    /\ call' = [op |-> "normalize", x |-> x, result |-> normalize(Vec(x))]
    /\ UNCHANGED <<sceneVars, starVars>>

\* Ray(origin, direction)
FnRay(o, d) ==
    /\ call.op = "none"
    /\ call' = [op |-> "Ray", origin |-> o, direction |-> d,
                result |-> Ray(Vec(o), Vec(d))]
    /\ UNCHANGED <<sceneVars, starVars>>

\* intersect(Ray(origin, direction), sphere)
FnIntersect(o, d, sph) ==
    /\ call.op = "none"
    /\ ExactRoots(o, d, sph)
    /\ call' = [op |-> "intersect", ray |-> Ray(Vec(o), Vec(d)), sphere |-> sph,
                result |-> intersect(Ray(Vec(o), Vec(d)), sph)]
    /\ UNCHANGED <<sceneVars, starVars>>

----------------------------------------------------------------------------
(* Specifications: one per component, the others held at a fixed state.    *)

SceneIdle == res = 2 /\ bodies = <<>> /\ SceneInit
StarIdle ==
    /\ P = <<ex, ey, ez, nanv>>
    /\ star_mu = <<Fin(1), Fin(0), Fin(1), Fin(0)>>
    /\ u1 = Fin(0)
    /\ u2 = Fin(0)
    /\ StarInit

InitScene == SceneInit /\ StarIdle /\ FnInit
NextScene ==
    \/ \E b \in BodyPool : SceneAdd(b)
    \/ SceneTrace
SpecScene == InitScene /\ [][NextScene]_vars

InitStar == SceneIdle /\ StarInit /\ FnInit
NextStar ==
    \/ \E sp \in SpotPool, overwrite \in BOOLEAN : StarAdd(<<sp>>, overwrite)
    \/ StarCalcFlux
    \/ \E angle \in Angles : StarRotate(angle)
    \/ \E target \in Targets : StarSetMeridian(target)
    \/ \E target \in Inclinations : StarSetInclination(target)
SpecStar == InitStar /\ [][NextStar]_vars

InitFn == SceneIdle /\ StarIdle /\ FnInit
NextFn ==
    \/ \E x \in AxisVectors : FnNormalize(x)
    \/ \E o \in RayOrigins, dl \in AxisVectors : FnRay(o, IntAdd(o, dl))
    \/ \E o \in RayOrigins, dl \in AxisVectors, sph \in SpherePool :
          FnIntersect(o, IntAdd(o, dl), sph)
SpecFn == InitFn /\ [][NextFn]_vars

----------------------------------------------------------------------------
(* Properties.                                                             *)

FreshGrid(n) == [p \in Pixels(n) |-> DefaultCell]
IntersectAll(p) ==
    Let(PixelRay(extent, zmax, res, p), LAMBDA ray :
        [k \in 1 .. Len(bodies) |-> intersect(ray, bodies[k])])

\* C1: after the first trace() of a Scene, each pixel's t is the minimum of
\* intersect(ray, body) over the bodies (+inf when there is none or all
\* miss), and body is the first body in collection order attaining it
\* (None when the minimum is +inf).
C1_NearestFirstBody ==
    (sceneOp = "trace" /\ ntrace = 1) =>
        \A p \in Pixels(res) : \A T \in {IntersectAll(p)} :
            /\ \A k \in DOMAIN T : XLe(t[p], T[k])
            /\ t[p] = PInf \/ \E k \in DOMAIN T : T[k] = t[p]
            /\ t[p] = PInf => body[p] = 0
            /\ t[p] # PInf =>
                  /\ body[p] \in DOMAIN T
                  /\ T[body[p]] = t[p]
                  /\ \A k \in DOMAIN T : k < body[p] => T[k] # t[p]

\* C1 witness: after a first trace(), a pixel where two bodies are hit at
\* the same finite t and the first of them owns the pixel.
C1_Witness ==
    /\ sceneOp = "trace" /\ ntrace = 1 /\ Len(bodies) = 2
    /\ \E p \in Pixels(res) : \E T \in {IntersectAll(p)} :
          IsFin(T[1]) /\ T[1] = T[2] /\ body[p] = 1 /\ t[p] = T[1]

\* C2: after any trace(), the four grids equal what trace() produces on a
\* freshly constructed Scene holding the same bodies.
C2_FullyRebuilt ==
    sceneOp = "trace" =>
        \A e \in {get_extent(bodies)} :
            CurrentGrid = trace_grid(bodies, e.extent, e.zmax, res, FreshGrid(res))

\* C3: extent and zmax are a function of the current bodies: (-1, 1) and
\* +inf with no body; otherwise the least of cx-r, cy-r, the greatest of
\* cx+r, cy+r and the greatest cz+r, so every body lies inside.
C3_ExtentOfBodies ==
    LET I == 1 .. Len(bodies)
        lows == {bodies[k].center[1] - bodies[k].radius : k \in I}
                \cup {bodies[k].center[2] - bodies[k].radius : k \in I}
        highs == {bodies[k].center[1] + bodies[k].radius : k \in I}
                 \cup {bodies[k].center[2] + bodies[k].radius : k \in I}
        tops == {bodies[k].center[3] + bodies[k].radius : k \in I}
    IN  /\ Len(bodies) = 0 => extent = <<-1, 1>> /\ zmax = PInf
        /\ Len(bodies) > 0 =>
              /\ extent[1] \in lows /\ \A v \in lows : extent[1] <= v
              /\ extent[2] \in highs /\ \A v \in highs : v <= extent[2]
              /\ IsFin(zmax) /\ zmax.v \in tops /\ \A v \in tops : v <= zmax.v

\* C3 witness: after add(), two bodies, the extent set by a body's y range
\* on one side and its x range on the other.
C3_Witness ==
    /\ sceneOp = "add" /\ Len(bodies) = 2
    /\ \E k \in 1 .. 2 :
          /\ extent[1] = bodies[k].center[2] - bodies[k].radius
          /\ extent[1] < bodies[k].center[1] - bodies[k].radius
          /\ extent[2] = bodies[k].center[1] + bodies[k].radius
    /\ \E k \in 1 .. 2 : zmax.v > bodies[k].center[3] + bodies[k].radius

\* C4: meridian is always in (-180, 180] and congruent modulo 360 to the
\* sum of the rotation angles applied; after set_meridian(target) it is
\* congruent to target.
C4_MeridianReduced ==
    /\ meridian > -180 /\ meridian <= 180
    /\ (meridian - angleSum) % 360 = 0
    /\ starOp = "set_meridian" => (meridian - starArg) % 360 = 0

\* C4 witness: set_meridian(225) has left the meridian at -135.
C4_Witness == starOp = "set_meridian" /\ starArg = 225 /\ meridian = -135

Covering(g) ==
    {k \in 1 .. Len(spots) :
        XLe(haversine(lat[g], lon[g], spots[k].lat, spots[k].lon), spots[k].radius)}

\* C5: after calc_flux(), every on-disk grid point (r not NaN) has the
\* contrast of the last spot of the list within whose radius it lies, and
\* flux 1 when no spot covers it.
C5_LastSpotWins ==
    starOp = "calc_flux" =>
        \A g \in DOMAIN P : ~IsNaN(r[g]) =>
            \A cover \in {Covering(g)} :
                star_flux[g] = IF cover = {} THEN Fin(1)
                               ELSE spots[SetMax(cover)].contrast

\* C5 witness: after calc_flux(), an on-disk point covered by two spots of
\* different contrast carries the contrast of the second.
C5_Witness ==
    /\ starOp = "calc_flux" /\ Len(spots) = 2
    /\ spots[1].contrast # spots[2].contrast
    /\ \E g \in DOMAIN P :
          ~IsNaN(r[g]) /\ Covering(g) = {1, 2} /\ star_flux[g] = spots[2].contrast

\* C6: rotate(360) after an orientation change leaves meridian and the
\* flux grid as that orientation change left them.
C6_FullTurnNoOp == turn # "changed"

\* C6 witness: rotate(360) has run on a spotted, limb-darkened star whose
\* previous call was an orientation change.
C6_Witness ==
    /\ turn = "same" /\ Len(spots) > 0 /\ u2 = Fin(1)
    /\ \E g \in DOMAIN P : star_flux[g] # Masked /\ star_flux[g] # Fin(1)

\* C7: intersect returns +inf exactly when the discriminant is negative
\* (for a ray parallel to z: exactly when dx^2 + dy^2 > radius^2);
\* otherwise the smaller root when it is >= 0, else the larger; from an
\* origin outside the sphere toward its centre, |O - C| - radius.
C7_IntersectRoots ==
    call.op = "intersect" =>
        \A disc \in {discriminant(call.ray, call.sphere)} :
        \A rt \in {roots(call.ray, call.sphere)} :
            LET O  == call.ray.origin
                D  == call.ray.direction
                C  == call.sphere.center
                rr == call.sphere.radius * call.sphere.radius
                dx == O[1].v - C[1]
                dy == O[2].v - C[2]
                dz == O[3].v - C[3]
                lo == XMin(rt[1], rt[2])
                hi == XMax(rt[1], rt[2])
            IN  /\ call.result = PInf <=> XLt(disc, Fin(0))
                /\ XGe(disc, Fin(0)) =>
                      call.result = IF XGe(lo, Fin(0)) THEN lo ELSE hi
                /\ (O[1] = D[1] /\ O[2] = D[2]) =>
                      (call.result = PInf <=> dx * dx + dy * dy > rr)
                /\ (dx = 0 /\ dy = 0 /\ dz * dz > rr /\ O[1] = D[1] /\ O[2] = D[2]
                    /\ (D[3].v - O[3].v) * dz < 0) =>
                      call.result = Fin(Abs(dz) - call.sphere.radius)

\* C8: normalize of a zero-length vector fails instead of returning NaN
\* components, and so does the construction of a Ray whose origin equals
\* its direction point.
C8_ZeroVectorFails ==
    /\ (call.op = "normalize" /\ call.x = <<0, 0, 0>>) =>
          call.result.out = "error"
    /\ (call.op = "Ray" /\ call.origin = call.direction) =>
          \A i \in 1 .. 3 : ~IsNaN(call.result.u[i])

\* C9: with at least one body, every ray trace() casts starts at
\* (x_i, y_j, zmax) with unit direction (0, 0, -1), and every finite hit
\* distance recorded is >= 0.
C9_CastDownward ==
    (sceneOp = "trace" /\ Len(bodies) > 0) =>
        \A p \in Pixels(res) : \A ray \in {PixelRay(extent, zmax, res, p)} :
            /\ ray.origin[3] = zmax
            /\ ray.u = <<Fin(0), Fin(0), Fin(-1)>>
            /\ IsFin(t[p]) => t[p].v >= 0

\* C10: after the first trace(), every pixel that records a hit has a
\* defined mu with 0 <= mu <= 1, equal to 1 where the pixel is at the
\* centre of the body that owns it and 0 where it is on that body's limb.
C10_MuDefined ==
    (sceneOp = "trace" /\ ntrace = 1) =>
        \A p \in Pixels(res) : body[p] # 0 =>
            LET b  == bodies[body[p]]
                dx == linspace(extent[1], extent[2], res, p[2]) - b.center[1]
                dy == linspace(extent[1], extent[2], res, p[1]) - b.center[2]
            IN  /\ IsFin(mu[p]) /\ mu[p].v >= 0 /\ mu[p].v <= 1
                /\ (dx = 0 /\ dy = 0) => mu[p] = Fin(1)
                /\ dx * dx + dy * dy = b.radius * b.radius => mu[p] = Fin(0)

====
